---- MODULE Spec2Model ----
(***************************************************************************)
(* Discord webhook MCP server: the three tools of src/index.ts             *)
(* (discord_send_message, discord_edit_message, discord_delete_message),   *)
(* the transport of discord-api.ts, the zod schemas of schemas.ts and the  *)
(* single-file server with its send_message tool.                          *)
(*                                                                         *)
(* Texts (response bodies, error messages, JSON) are sequences of          *)
(* one-character strings, so that JSON.stringify / JSON.parse and          *)
(* startsWith are computed character by character.                         *)
(***************************************************************************)
EXTENDS Integers, Sequences, FiniteSets, TLC

(***************************************************************************)
(* Bounds of the model.                                                    *)
(***************************************************************************)
\* longest response body / exception message enumerated freely
MaxBodyLen == 1
\* most members of an arguments object, in the runs that vary the input
MaxGiven == 3

(***************************************************************************)
(* Property names and string literals of the program, as texts.            *)
(***************************************************************************)
K_content == <<"c", "o", "n", "t", "e", "n", "t">>
K_username == <<"u", "s", "e", "r", "n", "a", "m", "e">>
K_avatar_url == <<"a", "v", "a", "t", "a", "r", "_", "u", "r", "l">>
K_tts == <<"t", "t", "s">>
K_embeds == <<"e", "m", "b", "e", "d", "s">>
K_allowed_mentions == <<"a", "l", "l", "o", "w", "e", "d", "_", "m", "e", "n", "t", "i", "o", "n", "s">>
K_thread_id == <<"t", "h", "r", "e", "a", "d", "_", "i", "d">>
K_thread_name == <<"t", "h", "r", "e", "a", "d", "_", "n", "a", "m", "e">>
K_message_id == <<"m", "e", "s", "s", "a", "g", "e", "_", "i", "d">>
K_title == <<"t", "i", "t", "l", "e">>
K_url == <<"u", "r", "l">>
K_description == <<"d", "e", "s", "c", "r", "i", "p", "t", "i", "o", "n">>
K_timestamp == <<"t", "i", "m", "e", "s", "t", "a", "m", "p">>
K_color == <<"c", "o", "l", "o", "r">>
K_footer == <<"f", "o", "o", "t", "e", "r">>
K_image == <<"i", "m", "a", "g", "e">>
K_thumbnail == <<"t", "h", "u", "m", "b", "n", "a", "i", "l">>
K_author == <<"a", "u", "t", "h", "o", "r">>
K_fields == <<"f", "i", "e", "l", "d", "s">>
K_name == <<"n", "a", "m", "e">>
K_value == <<"v", "a", "l", "u", "e">>
K_inline == <<"i", "n", "l", "i", "n", "e">>
K_text == <<"t", "e", "x", "t">>
K_icon_url == <<"i", "c", "o", "n", "_", "u", "r", "l">>
K_parse == <<"p", "a", "r", "s", "e">>
K_roles == <<"r", "o", "l", "e", "s">>
K_users == <<"u", "s", "e", "r", "s">>
K_replied_user == <<"r", "e", "p", "l", "i", "e", "d", "_", "u", "s", "e", "r">>
K_everyone == <<"e", "v", "e", "r", "y", "o", "n", "e">>
K_status == <<"s", "t", "a", "t", "u", "s">>
K_statusText == <<"s", "t", "a", "t", "u", "s", "T", "e", "x", "t">>
K_body == <<"b", "o", "d", "y">>
K_type == <<"t", "y", "p", "e">>
K_field == <<"f", "i", "e", "l", "d">>
K_message == <<"m", "e", "s", "s", "a", "g", "e">>
K_success == <<"s", "u", "c", "c", "e", "s", "s">>
K_error == <<"e", "r", "r", "o", "r">>
K_id == <<"i", "d">>
K_channel_id == <<"c", "h", "a", "n", "n", "e", "l", "_", "i", "d">>
K_wait == <<"w", "a", "i", "t">>
K_webhook_error == <<"w", "e", "b", "h", "o", "o", "k", "_", "e", "r", "r", "o", "r">>
K_validation_error == <<"v", "a", "l", "i", "d", "a", "t", "i", "o", "n", "_", "e", "r", "r", "o", "r">>
K_unknown_error == <<"u", "n", "k", "n", "o", "w", "n", "_", "e", "r", "r", "o", "r">>
K_true == <<"t", "r", "u", "e">>
K_undefined == <<"u", "n", "d", "e", "f", "i", "n", "e", "d">>
K_null == <<"n", "u", "l", "l">>
K_false == <<"f", "a", "l", "s", "e">>

(***************************************************************************)
(* JavaScript values that cross JSON: strings, numbers, booleans, null,    *)
(* objects (an ordered list of <<key, value>> members), arrays and         *)
(* undefined.                                                              *)
(***************************************************************************)
JUndef == [t |-> "undefined", s |-> <<>>, n |-> 0, m |-> <<>>, a |-> <<>>]
JNull == [t |-> "null", s |-> <<>>, n |-> 0, m |-> <<>>, a |-> <<>>]
JTrue == [t |-> "true", s |-> <<>>, n |-> 0, m |-> <<>>, a |-> <<>>]
JFalse == [t |-> "false", s |-> <<>>, n |-> 0, m |-> <<>>, a |-> <<>>]
JStr(s) == [t |-> "string", s |-> s, n |-> 0, m |-> <<>>, a |-> <<>>]
JNum(n) == [t |-> "number", s |-> <<>>, n |-> n, m |-> <<>>, a |-> <<>>]
\* the number n + 0.f, for n >= 0 and a non-empty text f of digits (1.5 is
\* JFrac(1, <<"5">>)); a number is an integer when its s is empty
JFrac(n, f) == [t |-> "number", s |-> f, n |-> n, m |-> <<>>, a |-> <<>>]
JObj(m) == [t |-> "object", s |-> <<>>, n |-> 0, m |-> m, a |-> <<>>]
JArr(a) == [t |-> "array", s |-> <<>>, n |-> 0, m |-> <<>>, a |-> a]
JBool(b) == IF b THEN JTrue ELSE JFalse

\* obj.key : the last member named key, undefined when there is none or when
\* obj is not an object (a property read on a string or number primitive)
RECURSIVE GetFrom(_, _, _)
GetFrom(m, key, i) ==
  IF i = 0 THEN JUndef
  ELSE IF m[i][1] = key THEN m[i][2]
  ELSE GetFrom(m, key, i - 1)

Get(obj, key) == IF obj.t = "object" THEN GetFrom(obj.m, key, Len(obj.m)) ELSE JUndef

\* JavaScript truthiness of a value
Truthy(v) ==
  CASE v.t = "undefined" -> FALSE
    [] v.t = "null" -> FALSE
    [] v.t = "false" -> FALSE
    [] v.t = "string" -> Len(v.s) > 0
    [] v.t = "number" -> v.n # 0 \/ v.s # <<>>
    [] OTHER -> TRUE

Digits == <<"0", "1", "2", "3", "4", "5", "6", "7", "8", "9">>

IsDigit(c) == \E d \in 1..10 : Digits[d] = c

DigitVal(c) == (CHOOSE d \in 1..10 : Digits[d] = c) - 1

\* String(n) for an integer
RECURSIVE NumText(_)
NumText(n) ==
  IF n < 0 THEN <<"-">> \o NumText(0 - n)
  ELSE IF n < 10 THEN <<Digits[n + 1]>>
  ELSE NumText(n \div 10) \o <<Digits[(n % 10) + 1]>>

\* Escape, leaving a backslash as it is
RECURSIVE Escape_noBackslash(_)
Escape_noBackslash(s) ==
  IF s = <<>> THEN <<>>
  ELSE (CASE Head(s) = "\"" -> <<"\\", "\"">>
          [] Head(s) = "\n" -> <<"\\", "n">>
          [] OTHER -> <<Head(s)>>) \o Escape_noBackslash(Tail(s))

\* the quoted form of a string inside JSON text
RECURSIVE Escape(_)
Escape(s) ==
  IF s = <<>> THEN <<>>
  ELSE (CASE Head(s) = "\"" -> <<"\\", "\"">>
          [] Head(s) = "\\" -> <<"\\", "\\">>
          [] Head(s) = "\n" -> <<"\\", "n">>
          [] OTHER -> <<Head(s)>>) \o Escape(Tail(s))

Quote(s) == <<"\"">> \o Escape(s) \o <<"\"">>

\* JSON.stringify(v): members whose value is undefined are left out
RECURSIVE JSON_stringify(_)
RECURSIVE StringifyMembers(_, _, _)
RECURSIVE StringifyElements(_, _)
StringifyMembers(m, i, first) ==
  IF i > Len(m) THEN <<>>
  ELSE IF m[i][2].t = "undefined" THEN StringifyMembers(m, i + 1, first)
  ELSE (IF first THEN <<>> ELSE <<",">>)
         \o Quote(m[i][1]) \o <<":">> \o JSON_stringify(m[i][2])
         \o StringifyMembers(m, i + 1, FALSE)

\* an undefined array element is written as null
StringifyElements(a, i) ==
  IF i > Len(a) THEN <<>>
  ELSE (IF i = 1 THEN <<>> ELSE <<",">>)
         \o (IF a[i].t = "undefined" THEN <<"n", "u", "l", "l">> ELSE JSON_stringify(a[i]))
         \o StringifyElements(a, i + 1)

JSON_stringify(v) ==
  CASE v.t = "string" -> Quote(v.s)
    [] v.t = "number" -> NumText(v.n) \o (IF v.s = <<>> THEN <<>> ELSE <<".">> \o v.s)
    [] v.t = "null" -> <<"n", "u", "l", "l">>
    [] v.t = "true" -> <<"t", "r", "u", "e">>
    [] v.t = "false" -> <<"f", "a", "l", "s", "e">>
    [] v.t = "object" -> <<"{">> \o StringifyMembers(v.m, 1, TRUE) \o <<"}">>
    [] v.t = "array" -> <<"[">> \o StringifyElements(v.a, 1) \o <<"]">>
    [] OTHER -> <<>>

\* result of a parse step: ok, the value, the index after it
PFail == [ok |-> FALSE, v |-> JUndef, i |-> 0]
POk(v, i) == [ok |-> TRUE, v |-> v, i |-> i]

At(t, i) == IF i >= 1 /\ i <= Len(t) THEN t[i] ELSE ""

Lit(t, i, w) == i + Len(w) - 1 <= Len(t) /\ SubSeq(t, i, i + Len(w) - 1) = w

\* the characters of a JSON string whose opening quote is before index i
RECURSIVE ParseChars(_, _, _)
ParseChars(t, i, acc) ==
  IF i > Len(t) THEN PFail
  ELSE IF t[i] = "\"" THEN POk(JStr(acc), i + 1)
  ELSE IF t[i] = "\n" THEN PFail
  ELSE IF t[i] = "\\" THEN
    (CASE At(t, i + 1) = "\"" -> ParseChars(t, i + 2, Append(acc, "\""))
       [] At(t, i + 1) = "\\" -> ParseChars(t, i + 2, Append(acc, "\\"))
       [] At(t, i + 1) = "/" -> ParseChars(t, i + 2, Append(acc, "/"))
       [] At(t, i + 1) = "n" -> ParseChars(t, i + 2, Append(acc, "\n"))
       [] OTHER -> PFail)
  ELSE ParseChars(t, i + 1, Append(acc, t[i]))

RECURSIVE ParseDigits(_, _, _)
ParseDigits(t, i, acc) ==
  IF IsDigit(At(t, i)) THEN ParseDigits(t, i + 1, acc * 10 + DigitVal(t[i]))
  ELSE POk(JNum(acc), i)

\* the digits of a fraction, from index i on
RECURSIVE ParseFraction(_, _, _)
ParseFraction(t, i, acc) ==
  IF IsDigit(At(t, i)) THEN ParseFraction(t, i + 1, Append(acc, t[i]))
  ELSE POk(JStr(acc), i)

\* a JSON number without its sign: digits, then "." and digits
ParseNumber(t, i) ==
  IF ~IsDigit(At(t, i)) \/ (At(t, i) = "0" /\ IsDigit(At(t, i + 1))) THEN PFail
  ELSE LET d == ParseDigits(t, i, 0) IN
       IF At(t, d.i) # "." THEN d
       ELSE LET f == ParseFraction(t, d.i + 1, <<>>) IN
            IF f.v.s = <<>> THEN PFail ELSE POk(JFrac(d.v.n, f.v.s), f.i)

\* one JSON value starting at index i (no whitespace, exponents, negative
\* fractions or \u escapes: the texts of this model have none)
RECURSIVE ParseValue(_, _)
RECURSIVE ParseMembers(_, _, _)
RECURSIVE ParseElements(_, _, _)
ParseElements(t, i, acc) ==
  LET v == ParseValue(t, i) IN
  IF ~v.ok THEN PFail
  ELSE IF At(t, v.i) = "," THEN ParseElements(t, v.i + 1, Append(acc, v.v))
  ELSE IF At(t, v.i) = "]" THEN POk(JArr(Append(acc, v.v)), v.i + 1)
  ELSE PFail

ParseMembers(t, i, acc) ==
  IF At(t, i) # "\"" THEN PFail
  ELSE LET k == ParseChars(t, i + 1, <<>>) IN
    IF ~k.ok \/ At(t, k.i) # ":" THEN PFail
    ELSE LET v == ParseValue(t, k.i + 1) IN
      IF ~v.ok THEN PFail
      ELSE IF At(t, v.i) = "," THEN ParseMembers(t, v.i + 1, Append(acc, <<k.v.s, v.v>>))
      ELSE IF At(t, v.i) = "}" THEN POk(JObj(Append(acc, <<k.v.s, v.v>>)), v.i + 1)
      ELSE PFail

ParseValue(t, i) ==
  CASE At(t, i) = "\"" -> ParseChars(t, i + 1, <<>>)
    [] At(t, i) = "{" ->
         IF At(t, i + 1) = "}" THEN POk(JObj(<<>>), i + 2) ELSE ParseMembers(t, i + 1, <<>>)
    [] At(t, i) = "[" ->
         IF At(t, i + 1) = "]" THEN POk(JArr(<<>>), i + 2) ELSE ParseElements(t, i + 1, <<>>)
    [] IsDigit(At(t, i)) -> ParseNumber(t, i)
    [] At(t, i) = "-" ->
         LET d == ParseNumber(t, i + 1) IN
         IF d.ok /\ d.v.s = <<>> THEN POk(JNum(0 - d.v.n), d.i) ELSE PFail
    [] Lit(t, i, <<"n", "u", "l", "l">>) -> POk(JNull, i + 4)
    [] Lit(t, i, <<"t", "r", "u", "e">>) -> POk(JTrue, i + 4)
    [] Lit(t, i, <<"f", "a", "l", "s", "e">>) -> POk(JFalse, i + 5)
    [] OTHER -> PFail

\* JSON.parse(t): ok = FALSE stands for the SyntaxError it throws
JSON_parse(t) ==
  LET r == ParseValue(t, 1) IN
  IF r.ok /\ r.i = Len(t) + 1 THEN r ELSE PFail

(***************************************************************************)
(* Text helpers.                                                           *)
(***************************************************************************)
\* index of the first character of t that is in S, 0 when there is none
FirstIn(t, S) ==
  IF \E j \in 1..Len(t) : t[j] \in S
  THEN CHOOSE j \in 1..Len(t) : t[j] \in S /\ \A k \in 1..(j - 1) : t[k] \notin S
  ELSE 0

From(t, i) == SubSeq(t, i, Len(t))

\* String.prototype.startsWith
startsWith(t, w) == Len(w) <= Len(t) /\ SubSeq(t, 1, Len(w)) = w

\* t.split(c)
RECURSIVE Split(_, _)
Split(t, c) ==
  LET j == FirstIn(t, {c}) IN
  IF j = 0 THEN <<t>> ELSE <<SubSeq(t, 1, j - 1)>> \o Split(From(t, j + 1), c)

\* `${v}` : the text a template literal makes of a value
ToText(v) ==
  CASE v.t = "string" -> v.s
    [] v.t = "number" -> NumText(v.n)
    [] v.t = "undefined" -> K_undefined
    [] v.t = "null" -> K_null
    [] v.t = "true" -> K_true
    [] v.t = "false" -> K_false
    [] v.t = "array" -> <<>>
    [] OTHER -> <<"[", "o", "b", "j", "e", "c", "t", " ", "O", "b", "j", "e", "c", "t", "]">>

(***************************************************************************)
(* new URL(text), url.searchParams.set.  A URL is its scheme, host, path,  *)
(* query pairs and fragment; ok = FALSE stands for the TypeError           *)
(* ("Invalid URL") the constructor throws.  "?" starts the query, "#" the   *)
(* fragment, and the "." and ".." segments of an http(s) path are          *)
(* resolved.  Percent-encoding is not computed: the texts used have no     *)
(* character that needs it.                                                *)
(***************************************************************************)
Letters ==
  {"a", "b", "c", "d", "e", "f", "g", "h", "i", "j", "k", "l", "m",
   "n", "o", "p", "q", "r", "s", "t", "u", "v", "w", "x", "y", "z"}

SpecialSchemes == {<<"h", "t", "t", "p">>, <<"h", "t", "t", "p", "s">>}

RECURSIVE DropSlashes(_)
DropSlashes(t) == IF t # <<>> /\ Head(t) = "/" THEN DropSlashes(Tail(t)) ELSE t

QueryPair(t) ==
  LET j == FirstIn(t, {"="}) IN
  IF j = 0 THEN <<t, <<>>>> ELSE <<SubSeq(t, 1, j - 1), From(t, j + 1)>>

ParseQuery(t) ==
  IF t = <<>> THEN <<>>
  ELSE LET parts == Split(t, "&") IN [i \in 1..Len(parts) |-> QueryPair(parts[i])]

\* the segments of a path with "." dropped and ".." taking the segment
\* before it away; a last segment "." or ".." leaves an empty one
RECURSIVE DotSegments(_, _, _)
DotSegments(segs, i, acc) ==
  IF i > Len(segs) THEN acc
  ELSE LET popped == IF acc = <<>> THEN <<>> ELSE SubSeq(acc, 1, Len(acc) - 1)
           kept == CASE segs[i] = <<".", ".">> -> popped
                     [] segs[i] = <<".">> -> acc
                     [] OTHER -> Append(acc, segs[i])
           dot == segs[i] \in {<<".">>, <<".", ".">>}
       IN DotSegments(segs, i + 1, IF dot /\ i = Len(segs) THEN Append(kept, <<>>) ELSE kept)

RECURSIVE JoinPath(_)
JoinPath(segs) == IF segs = <<>> THEN <<>> ELSE <<"/">> \o Head(segs) \o JoinPath(Tail(segs))

URL_new(t) ==
  LET c == FirstIn(t, {":"})
      hasScheme == c > 1 /\ \A j \in 1..(c - 1) : t[j] \in Letters
      scheme == IF hasScheme THEN SubSeq(t, 1, c - 1) ELSE <<>>
      rest == From(t, c + 1)
      h == FirstIn(rest, {"#"})
      noHash == IF h = 0 THEN rest ELSE SubSeq(rest, 1, h - 1)
      q == FirstIn(noHash, {"?"})
      noQuery == IF q = 0 THEN noHash ELSE SubSeq(noHash, 1, q - 1)
      special == scheme \in SpecialSchemes
      stripped == DropSlashes(noQuery)
      p == FirstIn(stripped, {"/"})
      host == IF ~special THEN <<>> ELSE IF p = 0 THEN stripped ELSE SubSeq(stripped, 1, p - 1)
      path == IF ~special THEN noQuery
              ELSE IF p = 0 THEN <<"/">>
              ELSE JoinPath(DotSegments(Split(From(stripped, p + 1), "/"), 1, <<>>))
  IN [ok |-> hasScheme /\ (special => host # <<>>),
      scheme |-> scheme,
      host |-> host,
      path |-> path,
      query |-> IF q = 0 THEN <<>> ELSE ParseQuery(From(noHash, q + 1)),
      hash |-> IF h = 0 THEN <<>> ELSE From(rest, h + 1)]

\* url.searchParams.set(name, value): the first pair of that name takes the
\* value and the others are removed; without one the pair is appended
RECURSIVE SetPairs(_, _, _, _)
SetPairs(pairs, name, value, seen) ==
  IF pairs = <<>> THEN (IF seen THEN <<>> ELSE <<<<name, value>>>>)
  ELSE IF Head(pairs)[1] = name
       THEN (IF seen THEN <<>> ELSE <<<<name, value>>>>) \o SetPairs(Tail(pairs), name, value, TRUE)
       ELSE <<Head(pairs)>> \o SetPairs(Tail(pairs), name, value, seen)

searchParams_set(url, name, value) == [url EXCEPT !.query = SetPairs(url.query, name, value, FALSE)]

\* url.searchParams.get(name): the first pair's value, null when absent
RECURSIVE searchParams_get(_, _)
searchParams_get(pairs, name) ==
  IF pairs = <<>> THEN JNull
  ELSE IF Head(pairs)[1] = name THEN JStr(Head(pairs)[2])
  ELSE searchParams_get(Tail(pairs), name)

(***************************************************************************)
(* zod.  A schema is data; Validate(schema, v) is schema.safeParse(v):     *)
(* ok and the parsed output (defaults filled in, unknown keys of a         *)
(* non-strict object stripped).                                            *)
(***************************************************************************)
ZBase ==
  [kind |-> "none", hasMin |-> FALSE, min |-> 0, hasMax |-> FALSE, max |-> 0,
   url |-> FALSE, int |-> FALSE, values |-> {}, elem |-> <<>>, shape |-> <<>>,
   strict |-> FALSE]

z_string == [ZBase EXCEPT !.kind = "string"]
z_number == [ZBase EXCEPT !.kind = "number"]
z_boolean == [ZBase EXCEPT !.kind = "boolean"]
z_enum(values) == [ZBase EXCEPT !.kind = "enum", !.values = values]
z_array(elem) == [ZBase EXCEPT !.kind = "array", !.elem = elem]
z_object(shape) == [ZBase EXCEPT !.kind = "object", !.shape = shape]
z_min(s, n) == [s EXCEPT !.hasMin = TRUE, !.min = n]
z_max(s, n) == [s EXCEPT !.hasMax = TRUE, !.max = n]
z_url(s) == [s EXCEPT !.url = TRUE]
z_int(s) == [s EXCEPT !.int = TRUE]
z_strict(s) == [s EXCEPT !.strict = TRUE]

\* the entries of an object's shape: key: schema / schema.optional() /
\* schema.optional().default(d)
Req(key, schema) ==
  [key |-> key, schema |-> schema, optional |-> FALSE, hasDefault |-> FALSE, default |-> JUndef]
Opt(key, schema) ==
  [key |-> key, schema |-> schema, optional |-> TRUE, hasDefault |-> FALSE, default |-> JUndef]
Def(key, schema, d) ==
  [key |-> key, schema |-> schema, optional |-> TRUE, hasDefault |-> TRUE, default |-> d]

ZFail == [ok |-> FALSE, v |-> JUndef]
ZOk(v) == [ok |-> TRUE, v |-> v]

InRange(schema, n) ==
  /\ schema.hasMin => n >= schema.min
  /\ schema.hasMax => n <= schema.max

\* .int(), .min(), .max() of a number: n + 0.f is above max when n = max
NumInRange(schema, v) ==
  /\ schema.int => v.s = <<>>
  /\ schema.hasMin => v.n >= schema.min
  /\ schema.hasMax => v.n < schema.max \/ (v.n = schema.max /\ v.s = <<>>)

RECURSIVE Validate(_, _)
RECURSIVE ValidateElems(_, _, _, _)
RECURSIVE ValidateShape(_, _, _, _)
ValidateElems(schema, a, i, acc) ==
  IF i > Len(a) THEN ZOk(JArr(acc))
  ELSE LET r == Validate(schema, a[i]) IN
    IF r.ok THEN ValidateElems(schema, a, i + 1, Append(acc, r.v)) ELSE ZFail

ValidateShape(shape, v, i, acc) ==
  IF i > Len(shape) THEN ZOk(JObj(acc))
  ELSE LET e == shape[i]
           given == Get(v, e.key)
       IN IF given.t = "undefined"
          THEN IF e.hasDefault THEN ValidateShape(shape, v, i + 1, Append(acc, <<e.key, e.default>>))
               ELSE IF e.optional THEN ValidateShape(shape, v, i + 1, acc)
               ELSE ZFail
          ELSE LET r == Validate(e.schema, given) IN
               IF r.ok THEN ValidateShape(shape, v, i + 1, Append(acc, <<e.key, r.v>>)) ELSE ZFail

Validate(schema, v) ==
  CASE schema.kind = "string" ->
         IF v.t = "string" /\ InRange(schema, Len(v.s)) /\ (schema.url => URL_new(v.s).ok)
         THEN ZOk(v) ELSE ZFail
    [] schema.kind = "number" ->
         IF v.t = "number" /\ NumInRange(schema, v) THEN ZOk(v) ELSE ZFail
    [] schema.kind = "boolean" ->
         IF v.t \in {"true", "false"} THEN ZOk(v) ELSE ZFail
    [] schema.kind = "enum" ->
         IF v.t = "string" /\ v.s \in schema.values THEN ZOk(v) ELSE ZFail
    [] schema.kind = "array" ->
         IF v.t = "array" /\ InRange(schema, Len(v.a))
         THEN ValidateElems(schema.elem, v.a, 1, <<>>) ELSE ZFail
    [] schema.kind = "object" ->
         IF /\ v.t = "object"
            /\ schema.strict =>
                 \A i \in 1..Len(v.m) : \E j \in 1..Len(schema.shape) : schema.shape[j].key = v.m[i][1]
         THEN ValidateShape(schema.shape, v, 1, <<>>) ELSE ZFail
    [] OTHER -> ZFail

(***************************************************************************)
(* constants.ts and the schemas of schemas.ts.                             *)
(***************************************************************************)
MAX_CONTENT_LENGTH == 2000
MAX_EMBEDS == 10
MAX_FIELDS == 25

EmbedFieldSchema ==
  z_strict(z_object(<<
    Req(K_name, z_min(z_string, 1)),
    Req(K_value, z_min(z_string, 1)),
    Def(K_inline, z_boolean, JFalse)>>))

EmbedSchema ==
  z_strict(z_object(<<
    Opt(K_title, z_max(z_string, 256)),
    Opt(K_url, z_url(z_string)),
    Opt(K_description, z_max(z_string, 4096)),
    Opt(K_timestamp, z_string),
    Opt(K_color, z_max(z_min(z_int(z_number), 0), 16777215)),
    Opt(K_footer, z_strict(z_object(<<
      Req(K_text, z_max(z_min(z_string, 1), 2048)),
      Opt(K_icon_url, z_url(z_string))>>))),
    Opt(K_image, z_strict(z_object(<<Req(K_url, z_url(z_string))>>))),
    Opt(K_thumbnail, z_strict(z_object(<<Req(K_url, z_url(z_string))>>))),
    Opt(K_author, z_strict(z_object(<<
      Req(K_name, z_max(z_min(z_string, 1), 256)),
      Opt(K_url, z_url(z_string)),
      Opt(K_icon_url, z_url(z_string))>>))),
    Opt(K_fields, z_max(z_array(EmbedFieldSchema), MAX_FIELDS))>>))

AllowedMentionsSchema ==
  z_strict(z_object(<<
    Opt(K_parse, z_array(z_enum({K_roles, K_users, K_everyone}))),
    Opt(K_roles, z_array(z_string)),
    Opt(K_users, z_array(z_string)),
    Def(K_replied_user, z_boolean, JFalse)>>))

SendMessageSchema ==
  z_strict(z_object(<<
    Opt(K_content, z_max(z_min(z_string, 1), MAX_CONTENT_LENGTH)),
    Opt(K_username, z_max(z_string, 80)),
    Opt(K_avatar_url, z_url(z_string)),
    Def(K_tts, z_boolean, JFalse),
    Opt(K_embeds, z_max(z_array(EmbedSchema), MAX_EMBEDS)),
    Opt(K_allowed_mentions, AllowedMentionsSchema),
    Opt(K_thread_id, z_string),
    Opt(K_thread_name, z_max(z_string, 100))>>))

\* EditMessageSchema without .strict()
EditMessageSchema_notStrict ==
  (z_object(<<
    Req(K_message_id, z_min(z_string, 1)),
    Opt(K_content, z_max(z_min(z_string, 1), MAX_CONTENT_LENGTH)),
    Opt(K_embeds, z_max(z_array(EmbedSchema), MAX_EMBEDS)),
    Opt(K_allowed_mentions, AllowedMentionsSchema)>>))

EditMessageSchema ==
  z_strict(z_object(<<
    Req(K_message_id, z_min(z_string, 1)),
    Opt(K_content, z_max(z_min(z_string, 1), MAX_CONTENT_LENGTH)),
    Opt(K_embeds, z_max(z_array(EmbedSchema), MAX_EMBEDS)),
    Opt(K_allowed_mentions, AllowedMentionsSchema)>>))

DeleteMessageSchema ==
  z_strict(z_object(<<Req(K_message_id, z_min(z_string, 1))>>))

(***************************************************************************)
(* The schemas of the single-file server: not strict, fewer limits.        *)
(***************************************************************************)
EmbedFieldSchema_legacy ==
  z_object(<<
    Req(K_name, z_string),
    Req(K_value, z_string),
    Def(K_inline, z_boolean, JFalse)>>)

EmbedSchema_legacy ==
  z_object(<<
    Opt(K_title, z_string),
    Opt(K_url, z_url(z_string)),
    Opt(K_description, z_string),
    Opt(K_timestamp, z_string),
    Opt(K_color, z_number),
    Opt(K_footer, z_object(<<
      Req(K_text, z_string),
      Opt(K_icon_url, z_url(z_string))>>)),
    Opt(K_image, z_object(<<Req(K_url, z_url(z_string))>>)),
    Opt(K_thumbnail, z_object(<<Req(K_url, z_url(z_string))>>)),
    Opt(K_author, z_object(<<
      Req(K_name, z_string),
      Opt(K_url, z_url(z_string)),
      Opt(K_icon_url, z_url(z_string))>>)),
    Opt(K_fields, z_array(EmbedFieldSchema_legacy))>>)

AllowedMentionsSchema_legacy ==
  z_object(<<
    Opt(K_parse, z_array(z_enum({K_roles, K_users, K_everyone}))),
    Opt(K_roles, z_array(z_string)),
    Opt(K_users, z_array(z_string)),
    Def(K_replied_user, z_boolean, JFalse)>>)

SendMessageSchema_legacy ==
  z_object(<<
    Opt(K_content, z_max(z_min(z_string, 1), 2000)),
    Opt(K_username, z_string),
    Opt(K_avatar_url, z_url(z_string)),
    Def(K_tts, z_boolean, JFalse),
    Opt(K_embeds, z_max(z_array(EmbedSchema_legacy), 10)),
    Opt(K_allowed_mentions, AllowedMentionsSchema_legacy),
    Opt(K_thread_id, z_string),
    Opt(K_thread_name, z_string)>>)

(***************************************************************************)
(* DiscordWebhookError values and formatError (discord-api.ts).  The        *)
(* Japanese literals of the program are written in Latin transcription     *)
(* ("Error: " for its error prefix): no claim reads their wording.         *)
(***************************************************************************)
webhook_error(status, statusText, body) ==
  JObj(<<<<K_type, JStr(K_webhook_error)>>, <<K_status, status>>,
         <<K_statusText, statusText>>, <<K_body, body>>>>)

validation_error(field, message) ==
  JObj(<<<<K_type, JStr(K_validation_error)>>, <<K_field, field>>, <<K_message, message>>>>)

unknown_error(message) ==
  JObj(<<<<K_type, JStr(K_unknown_error)>>, <<K_message, message>>>>)

isWebhookError(error) == Get(error, K_type) = JStr(K_webhook_error)

\* formatError with " - " before the body, as the tool descriptions write it
formatError_dashed(error) ==
  CASE Get(error, K_type) = JStr(K_webhook_error) ->
         <<"D", "i", "s", "c", "o", "r", "d", " ", "W", "e", "b", "h", "o", "o", "k", " ", "e", "r", "r", "o", "r", ":", " ">>
           \o ToText(Get(error, K_status)) \o <<" ">> \o ToText(Get(error, K_statusText))
           \o <<" ", "-", " ">> \o ToText(Get(error, K_body))
    [] Get(error, K_type) = JStr(K_validation_error) ->
         <<"V", "a", "l", "i", "d", "a", "t", "i", "o", "n", " ", "e", "r", "r", "o", "r", ":", " ">>
           \o ToText(Get(error, K_field)) \o <<" ", "-", " ">> \o ToText(Get(error, K_message))
    [] Get(error, K_type) = JStr(K_unknown_error) ->
         <<"U", "n", "k", "n", "o", "w", "n", " ", "e", "r", "r", "o", "r", ":", " ">> \o ToText(Get(error, K_message))
    [] OTHER -> K_undefined

formatError(error) ==
  CASE Get(error, K_type) = JStr(K_webhook_error) ->
         <<"D", "i", "s", "c", "o", "r", "d", " ", "W", "e", "b", "h", "o", "o", "k", " ", "e", "r", "r", "o", "r", ":", " ">>
           \o ToText(Get(error, K_status)) \o <<" ">> \o ToText(Get(error, K_statusText))
           \o <<"\n">> \o ToText(Get(error, K_body))
    [] Get(error, K_type) = JStr(K_validation_error) ->
         <<"V", "a", "l", "i", "d", "a", "t", "i", "o", "n", " ", "e", "r", "r", "o", "r", ":", " ">>
           \o ToText(Get(error, K_field)) \o <<" ", "-", " ">> \o ToText(Get(error, K_message))
    [] Get(error, K_type) = JStr(K_unknown_error) ->
         <<"U", "n", "k", "n", "o", "w", "n", " ", "e", "r", "r", "o", "r", ":", " ">> \o ToText(Get(error, K_message))
    [] OTHER -> K_undefined

(***************************************************************************)
(* The state.                                                              *)
(***************************************************************************)
VARIABLES
  entry,        \* which server file the process runs: "index" or "single"
  WEBHOOK_URL,  \* process.env.DISCORD_WEBHOOK_URL as a text (empty: not set)
  proc,         \* "loading", "exited" (process.exit(1)) or "running" (connected)
  stderr,       \* what the process has written to process.stderr
  pc,           \* the invocation: "idle", "await" (fetch in flight) or "done"
  tool,         \* name of the tool invoked
  args,         \* the caller's arguments
  params,       \* the arguments as parsed by the tool's schema
  request,      \* the request handed to fetch
  fetches,      \* calls of fetch made by the invocation
  response,     \* what fetch met: a rejection or an HTTP response
  outcome,      \* what sendToDiscord / editDiscordMessage / deleteDiscordMessage gave
  result        \* what the invocation returned to the caller

vars ==
  <<entry, WEBHOOK_URL, proc, stderr, pc, tool, args, params, request, fetches, response,
    outcome, result>>

NoRequest ==
  [method |-> "none", url |-> URL_new(<<>>), contentType |-> <<>>,
   hasBody |-> FALSE, body |-> <<>>]

NoResponse ==
  [kind |-> "none", status |-> 0, statusText |-> <<>>, body |-> <<>>,
   readFails |-> FALSE, message |-> <<>>]

\* state: "none", "returned", or "threw" (the operation raised)
NoOutcome == [state |-> "none", result |-> JUndef, error |-> JUndef]

Returned(res, err) == [state |-> "returned", result |-> res, error |-> err]

\* kind: "none", "result" (a CallToolResult), "throw" (the handler raised) or
\* "invalid_params" (the arguments failed the registered inputSchema, the
\* handler was not called)
NoResult == [kind |-> "none", text |-> <<>>, isError |-> JUndef, structuredContent |-> JUndef]

ToolResult(text, isError, structuredContent) ==
  [kind |-> "result", text |-> text, isError |-> isError,
   structuredContent |-> structuredContent]

Thrown(message) ==
  [kind |-> "throw", text |-> message, isError |-> JUndef, structuredContent |-> JUndef]

InvalidParams ==
  [kind |-> "invalid_params", text |-> <<>>, isError |-> JUndef, structuredContent |-> JUndef]

(***************************************************************************)
(* discord-api.ts: makeRequest, convertError and the three operations,     *)
(* each split at its await of fetch.                                       *)
(***************************************************************************)
\* a thrown JavaScript value: an Error with its message
Err(message) == [isError |-> TRUE, message |-> message]

IsOkStatus(status) == status >= 200 /\ status <= 299

\* makeRequest up to fetch(url, options)
makeRequest_options(url, method, hasBody, body) ==
  [method |-> method, url |-> url, contentType |-> <<"a", "p", "p", "l", "i", "c", "a", "t", "i", "o", "n", "/", "j", "s", "o", "n">>,
   hasBody |-> hasBody /\ Truthy(body),
   body |-> IF hasBody /\ Truthy(body) THEN JSON_stringify(body) ELSE <<>>]

\* makeRequest from the settling of fetch on: threw with the Error, or the value
\* makeRequest, decoding the body of a DELETE too
makeRequest_settle_alwaysDecode(method, resp) ==
  IF resp.kind = "reject" THEN [threw |-> TRUE, error |-> Err(resp.message), value |-> JUndef]
  ELSE IF ~IsOkStatus(resp.status) THEN
    IF resp.readFails THEN [threw |-> TRUE, error |-> Err(resp.message), value |-> JUndef]
    ELSE [threw |-> TRUE,
          error |-> Err(JSON_stringify(JObj(<<<<K_status, JNum(resp.status)>>,
                                             <<K_statusText, JStr(resp.statusText)>>,
                                             <<K_body, JStr(resp.body)>>>>))),
          value |-> JUndef]
  ELSE IF resp.readFails \/ ~JSON_parse(resp.body).ok
       THEN [threw |-> TRUE, error |-> Err(resp.message), value |-> JUndef]
  ELSE [threw |-> FALSE, error |-> Err(<<>>), value |-> JSON_parse(resp.body).v]

makeRequest_settle(method, resp) ==
  IF resp.kind = "reject" THEN [threw |-> TRUE, error |-> Err(resp.message), value |-> JUndef]
  ELSE IF ~IsOkStatus(resp.status) THEN
    IF resp.readFails THEN [threw |-> TRUE, error |-> Err(resp.message), value |-> JUndef]
    ELSE [threw |-> TRUE,
          error |-> Err(JSON_stringify(JObj(<<<<K_status, JNum(resp.status)>>,
                                             <<K_statusText, JStr(resp.statusText)>>,
                                             <<K_body, JStr(resp.body)>>>>))),
          value |-> JUndef]
  ELSE IF method = "DELETE" THEN [threw |-> FALSE, error |-> Err(<<>>), value |-> JUndef]
  ELSE IF resp.readFails \/ ~JSON_parse(resp.body).ok
       THEN [threw |-> TRUE, error |-> Err(resp.message), value |-> JUndef]
  ELSE [threw |-> FALSE, error |-> Err(<<>>), value |-> JSON_parse(resp.body).v]

convertError(error) ==
  IF error.isError /\ startsWith(error.message, <<"{">>)
  THEN LET parsed == JSON_parse(error.message) IN
       IF parsed.ok
       THEN webhook_error(Get(parsed.v, K_status), Get(parsed.v, K_statusText),
                          Get(parsed.v, K_body))
       ELSE unknown_error(JStr(error.message))
  ELSE unknown_error(JStr(error.message))

\* sendToDiscord up to the fetch: the URL constructor runs outside the try
sendToDiscord_fetch(payload, wait, threadId) ==
  LET url == URL_new(WEBHOOK_URL)
      url1 == IF wait THEN searchParams_set(url, K_wait, K_true) ELSE url
      url2 == IF Truthy(threadId) THEN searchParams_set(url1, K_thread_id, threadId.s) ELSE url1
  IN [threw |-> ~url.ok, request |-> makeRequest_options(url2, "POST", TRUE, payload)]

sendToDiscord_settle(resp) ==
  LET r == makeRequest_settle("POST", resp) IN
  IF r.threw THEN Returned(JNull, convertError(r.error)) ELSE Returned(r.value, JUndef)

editDiscordMessage_fetch(messageId, payload) ==
  LET url == URL_new(WEBHOOK_URL \o <<"/", "m", "e", "s", "s", "a", "g", "e", "s", "/">> \o ToText(messageId)) IN
  [threw |-> ~url.ok, request |-> makeRequest_options(url, "PATCH", TRUE, payload)]

editDiscordMessage_settle(resp) ==
  LET r == makeRequest_settle("PATCH", resp) IN
  IF r.threw THEN Returned(JNull, convertError(r.error)) ELSE Returned(r.value, JUndef)

deleteDiscordMessage_fetch(messageId) ==
  LET url == URL_new(WEBHOOK_URL \o <<"/", "m", "e", "s", "s", "a", "g", "e", "s", "/">> \o ToText(messageId)) IN
  [threw |-> ~url.ok, request |-> makeRequest_options(url, "DELETE", FALSE, JUndef)]

deleteDiscordMessage_settle(resp) ==
  LET r == makeRequest_settle("DELETE", resp) IN
  IF r.threw THEN Returned(JUndef, convertError(r.error)) ELSE Returned(JUndef, JUndef)

(***************************************************************************)
(* index.ts: the three tool handlers, each split at its await.             *)
(***************************************************************************)
hasContent(p) == Truthy(Get(p, K_content)) /\ Len(Get(p, K_content).s) > 0

hasEmbeds(p) == Truthy(Get(p, K_embeds)) /\ Len(Get(p, K_embeds).a) > 0

\* if (cond) payload[key] = value
PutIf(cond, key, value) == IF cond THEN <<<<key, value>>>> ELSE <<>>

PreconditionText == <<"E", "r", "r", "o", "r", ":", " ", "c", "o", "n", "t", "e", "n", "t", ",", " ", "e", "m", "b", "e", "d", "s", " ", "n", "o", " ", "u", "c", "h", "i", " ", "s", "a", "i", "t", "e", "i", " ", "1", "t", "s", "u", " ", "w", "o", " ", "s", "h", "i", "t", "e", "i", " ", "s", "h", "i", "t", "e", " ", "k", "u", "d", "a", "s", "a", "i">>

\* the payload with tts assigned whatever its value
discord_send_message_payload_defaults(p) ==
  JObj(PutIf(hasContent(p), K_content, Get(p, K_content))
    \o PutIf(Truthy(Get(p, K_username)), K_username, Get(p, K_username))
    \o PutIf(Truthy(Get(p, K_avatar_url)), K_avatar_url, Get(p, K_avatar_url))
    \o PutIf(TRUE, K_tts, Get(p, K_tts))
    \o PutIf(hasEmbeds(p), K_embeds, Get(p, K_embeds))
    \o PutIf(Truthy(Get(p, K_allowed_mentions)), K_allowed_mentions, Get(p, K_allowed_mentions))
    \o PutIf(Truthy(Get(p, K_thread_name)), K_thread_name, Get(p, K_thread_name)))

discord_send_message_payload(p) ==
  JObj(PutIf(hasContent(p), K_content, Get(p, K_content))
    \o PutIf(Truthy(Get(p, K_username)), K_username, Get(p, K_username))
    \o PutIf(Truthy(Get(p, K_avatar_url)), K_avatar_url, Get(p, K_avatar_url))
    \o PutIf(Truthy(Get(p, K_tts)), K_tts, Get(p, K_tts))
    \o PutIf(hasEmbeds(p), K_embeds, Get(p, K_embeds))
    \o PutIf(Truthy(Get(p, K_allowed_mentions)), K_allowed_mentions, Get(p, K_allowed_mentions))
    \o PutIf(Truthy(Get(p, K_thread_name)), K_thread_name, Get(p, K_thread_name)))

\* the success payload with id and channel_id exchanged
discord_send_message_return_exchanged(out) ==
  IF Truthy(out.error)
  THEN ToolResult(<<"E", "r", "r", "o", "r", ":", " ">> \o formatError(out.error), JTrue, JUndef)
  ELSE LET messageInfo == out.result
           nullish == messageInfo.t \in {"null", "undefined"}
       IN ToolResult(
            IF Truthy(messageInfo)
            THEN <<"m", "e", "s", "s", "a", "g", "e", " ", "w", "o", " ", "s", "o", "u", "s", "h", "i", "n", " ", "s", "h", "i", "m", "a", "s", "h", "i", "t", "a", "\n", "I", "D", ":", " ">> \o ToText(Get(messageInfo, K_id))
                   \o <<"\n", "c", "h", "a", "n", "n", "e", "l", ":", " ">> \o ToText(Get(messageInfo, K_channel_id))
            ELSE <<"m", "e", "s", "s", "a", "g", "e", " ", "w", "o", " ", "s", "o", "u", "s", "h", "i", "n", " ", "s", "h", "i", "m", "a", "s", "h", "i", "t", "a">>,
            JUndef,
            JObj(<<<<K_success, JTrue>>,
                   <<K_message_id, IF nullish THEN JUndef ELSE Get(messageInfo, K_channel_id)>>,
                   <<K_channel_id, IF nullish THEN JUndef ELSE Get(messageInfo, K_id)>>,
                   <<K_timestamp, IF nullish THEN JUndef ELSE Get(messageInfo, K_timestamp)>>>>))

discord_send_message_return(out) ==
  IF Truthy(out.error)
  THEN ToolResult(<<"E", "r", "r", "o", "r", ":", " ">> \o formatError(out.error), JTrue, JUndef)
  ELSE LET messageInfo == out.result
           nullish == messageInfo.t \in {"null", "undefined"}
       IN ToolResult(
            IF Truthy(messageInfo)
            THEN <<"m", "e", "s", "s", "a", "g", "e", " ", "w", "o", " ", "s", "o", "u", "s", "h", "i", "n", " ", "s", "h", "i", "m", "a", "s", "h", "i", "t", "a", "\n", "I", "D", ":", " ">> \o ToText(Get(messageInfo, K_id))
                   \o <<"\n", "c", "h", "a", "n", "n", "e", "l", ":", " ">> \o ToText(Get(messageInfo, K_channel_id))
            ELSE <<"m", "e", "s", "s", "a", "g", "e", " ", "w", "o", " ", "s", "o", "u", "s", "h", "i", "n", " ", "s", "h", "i", "m", "a", "s", "h", "i", "t", "a">>,
            JUndef,
            JObj(<<<<K_success, JTrue>>,
                   <<K_message_id, IF nullish THEN JUndef ELSE Get(messageInfo, K_id)>>,
                   <<K_channel_id, IF nullish THEN JUndef ELSE Get(messageInfo, K_channel_id)>>,
                   <<K_timestamp, IF nullish THEN JUndef ELSE Get(messageInfo, K_timestamp)>>>>))

discord_edit_message_payload(p) ==
  JObj(PutIf(hasContent(p), K_content, Get(p, K_content))
    \o PutIf(hasEmbeds(p), K_embeds, Get(p, K_embeds))
    \o PutIf(Truthy(Get(p, K_allowed_mentions)), K_allowed_mentions, Get(p, K_allowed_mentions)))

\* the edit handler testing only the error, as the send handler does
discord_edit_message_return_anyResult(out) ==
  IF Truthy(out.error)
  THEN ToolResult(
         IF Truthy(out.error) THEN <<"E", "r", "r", "o", "r", ":", " ">> \o formatError(out.error)
         ELSE <<"E", "r", "r", "o", "r", ":", " ", "m", "e", "s", "s", "a", "g", "e", " ", "n", "o", " ", "h", "e", "n", "s", "h", "u", "u", " ", "n", "i", " ", "s", "h", "i", "p", "p", "a", "i", " ", "s", "h", "i", "m", "a", "s", "h", "i", "t", "a">>,
         JTrue, JUndef)
  ELSE ToolResult(
         <<"m", "e", "s", "s", "a", "g", "e", " ", "w", "o", " ", "h", "e", "n", "s", "h", "u", "u", " ", "s", "h", "i", "m", "a", "s", "h", "i", "t", "a", "\n", "I", "D", ":", " ">> \o ToText(Get(out.result, K_id)),
         JUndef,
         JObj(<<<<K_success, JTrue>>,
                <<K_message_id, Get(out.result, K_id)>>,
                <<K_timestamp, Get(out.result, K_timestamp)>>>>))

discord_edit_message_return(out) ==
  IF Truthy(out.error) \/ ~Truthy(out.result)
  THEN ToolResult(
         IF Truthy(out.error) THEN <<"E", "r", "r", "o", "r", ":", " ">> \o formatError(out.error)
         ELSE <<"E", "r", "r", "o", "r", ":", " ", "m", "e", "s", "s", "a", "g", "e", " ", "n", "o", " ", "h", "e", "n", "s", "h", "u", "u", " ", "n", "i", " ", "s", "h", "i", "p", "p", "a", "i", " ", "s", "h", "i", "m", "a", "s", "h", "i", "t", "a">>,
         JTrue, JUndef)
  ELSE ToolResult(
         <<"m", "e", "s", "s", "a", "g", "e", " ", "w", "o", " ", "h", "e", "n", "s", "h", "u", "u", " ", "s", "h", "i", "m", "a", "s", "h", "i", "t", "a", "\n", "I", "D", ":", " ">> \o ToText(Get(out.result, K_id)),
         JUndef,
         JObj(<<<<K_success, JTrue>>,
                <<K_message_id, Get(out.result, K_id)>>,
                <<K_timestamp, Get(out.result, K_timestamp)>>>>))

discord_delete_message_return(p, out) ==
  IF Truthy(out.error)
  THEN ToolResult(<<"E", "r", "r", "o", "r", ":", " ">> \o formatError(out.error), JTrue, JUndef)
  ELSE ToolResult(
         <<"m", "e", "s", "s", "a", "g", "e", " ", "w", "o", " ", "s", "a", "k", "u", "j", "o", " ", "s", "h", "i", "m", "a", "s", "h", "i", "t", "a", "\n", "I", "D", ":", " ">> \o ToText(Get(p, K_message_id)),
         JUndef,
         JObj(<<<<K_success, JTrue>>, <<K_message_id, Get(p, K_message_id)>>>>))

(***************************************************************************)
(* The single-file server: its sendToDiscord (a ResultAsync) and the       *)
(* send_message branch of its CallToolRequestSchema handler.               *)
(***************************************************************************)
sendToDiscord_legacy_fetch(payload, wait) ==
  LET url == URL_new(WEBHOOK_URL)
      url1 == IF wait THEN searchParams_set(url, K_wait, K_true) ELSE url
  IN [threw |-> ~url.ok,
      request |-> [method |-> "POST", url |-> url1, contentType |-> <<"a", "p", "p", "l", "i", "c", "a", "t", "i", "o", "n", "/", "j", "s", "o", "n">>,
                   hasBody |-> TRUE, body |-> JSON_stringify(payload)]]

sendToDiscord_legacy_settle(resp, wait) ==
  LET error ==
        IF resp.kind = "reject" THEN Err(resp.message)
        ELSE IF ~IsOkStatus(resp.status) /\ ~resp.readFails
        THEN Err(JSON_stringify(JObj(<<<<K_status, JNum(resp.status)>>,
                                       <<K_statusText, JStr(resp.statusText)>>,
                                       <<K_body, JStr(resp.body)>>>>)))
        ELSE Err(resp.message)
      failed ==
        \/ resp.kind = "reject"
        \/ ~IsOkStatus(resp.status)
        \/ wait /\ (resp.readFails \/ ~JSON_parse(resp.body).ok)
  IN IF failed
     THEN Returned(JUndef,
            IF error.isError /\ startsWith(error.message, <<"{">>)
            THEN LET parsed == JSON_parse(error.message) IN
                 IF parsed.ok
                 THEN webhook_error(Get(parsed.v, K_status), Get(parsed.v, K_statusText),
                                    Get(parsed.v, K_body))
                 ELSE unknown_error(JStr(error.message))
            ELSE unknown_error(JStr(error.message)))
     ELSE Returned(IF wait THEN JSON_parse(resp.body).v ELSE JNull, JUndef)

send_message_payload(parsed) ==
  JObj(PutIf(hasContent(parsed), K_content, Get(parsed, K_content))
    \o PutIf(Truthy(Get(parsed, K_username)), K_username, Get(parsed, K_username))
    \o PutIf(Truthy(Get(parsed, K_avatar_url)), K_avatar_url, Get(parsed, K_avatar_url))
    \o PutIf(Truthy(Get(parsed, K_tts)), K_tts, Get(parsed, K_tts))
    \o PutIf(hasEmbeds(parsed), K_embeds, Get(parsed, K_embeds))
    \o PutIf(Truthy(Get(parsed, K_allowed_mentions)), K_allowed_mentions,
             Get(parsed, K_allowed_mentions))
    \o PutIf(Truthy(Get(parsed, K_thread_name)), K_thread_name, Get(parsed, K_thread_name)))

\* const { thread_id, ...restPayload } = payload
send_message_restPayload(payload) ==
  JObj(SelectSeq(payload.m, LAMBDA kv : kv[1] # K_thread_id))

\* sendToDiscord(restPayload, !!thread_id)
send_message_wait(payload) == Truthy(Get(payload, K_thread_id))

PreconditionMessage_legacy ==
  <<"c", "o", "n", "t", "e", "n", "t", ",", " ", "e", "m", "b", "e", "d", "s", ",", " ", "f", "i", "l", "e", ",", " ", "p", "o", "l", "l", ",", " ", "c", "o", "m", "p", "o", "n", "e", "n", "t", "s", " ", "n", "o", " ", "u", "c", "h", "i", " ", "s", "a", "i", "t", "e", "i", " ", "1", "t", "s", "u", " ", "w", "o", " ", "s", "h", "i", "t", "e", "i", " ", "s", "h", "i", "t", "e", " ", "k", "u", "d", "a", "s", "a", "i">>

send_message_precondition ==
  ToolResult(<<"E", "r", "r", "o", "r", ":", " ">> \o PreconditionMessage_legacy, JTrue,
    JObj(<<<<K_success, JFalse>>,
           <<K_error, validation_error(JStr(<<"c", "o", "n", "t", "e", "n", "t", "/", "e", "m", "b", "e", "d", "s">>),
                                       JStr(PreconditionMessage_legacy))>>>>))

send_message_return(out) ==
  IF ~Truthy(out.error)
  THEN LET messageInfo == out.result
           nullish == messageInfo.t \in {"null", "undefined"}
       IN ToolResult(
            IF Truthy(messageInfo)
            THEN <<"m", "e", "s", "s", "a", "g", "e", " ", "w", "o", " ", "s", "o", "u", "s", "h", "i", "n", " ", "s", "h", "i", "m", "a", "s", "h", "i", "t", "a", "\n", "I", "D", ":", " ">> \o ToText(Get(messageInfo, K_id))
                   \o <<"\n", "c", "h", "a", "n", "n", "e", "l", ":", " ">> \o ToText(Get(messageInfo, K_channel_id))
            ELSE <<"m", "e", "s", "s", "a", "g", "e", " ", "w", "o", " ", "s", "o", "u", "s", "h", "i", "n", " ", "s", "h", "i", "m", "a", "s", "h", "i", "t", "a">>,
            JFalse,
            JObj(<<<<K_success, JTrue>>,
                   <<K_message_id, IF nullish THEN JUndef ELSE Get(messageInfo, K_id)>>,
                   <<K_channel_id, IF nullish THEN JUndef ELSE Get(messageInfo, K_channel_id)>>,
                   <<K_timestamp, IF nullish THEN JUndef ELSE Get(messageInfo, K_timestamp)>>>>))
  ELSE ToolResult(<<"E", "r", "r", "o", "r", ":", " ">> \o formatError(out.error), JTrue,
         JObj(<<<<K_success, JFalse>>,
                <<K_error,
                  IF isWebhookError(out.error)
                  THEN JObj(<<<<K_type, Get(out.error, K_type)>>,
                              <<K_status, Get(out.error, K_status)>>,
                              <<K_statusText, Get(out.error, K_statusText)>>,
                              <<K_message, Get(out.error, K_body)>>>>)
                  ELSE JObj(<<<<K_type, Get(out.error, K_type)>>,
                              <<K_message, Get(out.error, K_message)>>>>)>>>>))

(***************************************************************************)
(* Inputs: the environment value, the callers' arguments, and what the     *)
(* endpoint may answer.                                                    *)
(***************************************************************************)
WebhookUrl == <<"h", "t", "t", "p", "s", ":", "/", "/", "d", ".", "t", "e", "s", "t", "/", "w", "/", "1", "/", "t", "o", "k">>

\* not set, set to a text that is no URL, set to a webhook URL
EnvValues == {<<>>, <<"w">>, WebhookUrl}

Absent == JUndef

\* an arguments object: the members that are given
MkArgs(members) == JObj(SelectSeq(members, LAMBDA kv : kv[2].t # "undefined"))

Hi == JStr(<<"h", "i">>)
Empty == JStr(<<>>)
Embed1 == JObj(<<<<K_title, JStr(<<"t">>)>>>>)
K_extra == <<"x">>

SendArgsOf(C, U, A, T, E, M, TI, TN, X) ==
  {MkArgs(<<<<K_content, c>>, <<K_username, u>>, <<K_avatar_url, a>>, <<K_tts, t>>,
            <<K_embeds, e>>, <<K_allowed_mentions, m>>, <<K_thread_id, ti>>,
            <<K_thread_name, tn>>, <<K_extra, x>>>>) :
     c \in C, u \in U, a \in A, t \in T, e \in E, m \in M, ti \in TI, tn \in TN, x \in X}

EditArgsOf(I, C, E, M, U, T, TI) ==
  {MkArgs(<<<<K_message_id, i>>, <<K_content, c>>, <<K_embeds, e>>,
            <<K_allowed_mentions, m>>, <<K_username, u>>, <<K_tts, t>>,
            <<K_thread_id, ti>>>>) :
     i \in I, c \in C, e \in E, m \in M, u \in U, t \in T, ti \in TI}

DeleteArgsOf(I, X) ==
  {MkArgs(<<<<K_message_id, i>>, <<K_extra, x>>>>) : i \in I, x \in X}

\* few arguments, for the runs that vary the endpoint's answer
SendArgs ==
  SendArgsOf({Absent, Hi}, {Absent}, {Absent}, {Absent}, {Absent, JArr(<<Embed1>>)},
             {Absent}, {Absent, JStr(<<"7">>)}, {Absent}, {Absent})

EditArgs ==
  EditArgsOf({JStr(<<"5">>)}, {Absent, Hi}, {Absent, JArr(<<Embed1>>)}, {Absent},
             {Absent}, {Absent}, {Absent})

DeleteArgs == DeleteArgsOf({JStr(<<"5">>), JStr(<<"6">>)}, {Absent})

\* many arguments, for the runs that vary the caller's input
ContentValues == {Absent, Empty, Hi}
EmbedsValues == {Absent, JArr(<<>>), JArr(<<Embed1>>)}
MentionsValues ==
  {Absent, JObj(<<>>), JObj(<<<<K_parse, JArr(<<JStr(K_users)>>)>>>>)}

AtMost(S, n) == {a \in S : Len(a.m) <= n}

SendArgsWide ==
  AtMost(SendArgsOf(ContentValues, {Absent, Empty, JStr(<<"b">>)}, {Absent, JStr(WebhookUrl)},
             {Absent, JFalse, JTrue}, EmbedsValues, MentionsValues,
             {Absent, Empty, JStr(<<"7">>)}, {Absent, Empty, JStr(<<"n">>)},
             {Absent, JStr(<<"y">>)}), MaxGiven)

\* message ids: a snowflake-like id, and texts that new URL reads as syntax
MessageIds == {JStr(<<"5">>), JStr(<<".", ".">>), JStr(<<"5", "?", "x">>)}

EditArgsWide ==
  AtMost(EditArgsOf({Absent, Empty} \cup MessageIds, ContentValues, EmbedsValues,
                    MentionsValues, {Absent, JStr(<<"b">>)}, {Absent, JTrue},
                    {Absent, JStr(<<"7">>)}), MaxGiven)

DeleteArgsWide ==
  DeleteArgsOf({Absent, Empty, JStr(<<"6">>)} \cup MessageIds, {Absent, JStr(<<"y">>)})

\* arguments at the limits of the schemas: MAX_EMBEDS embeds and one more,
\* MAX_FIELDS fields and one more, colors at and beyond both ends of the
\* 24-bit range and a color that is no integer
Repeat(x, n) == [i \in 1..n |-> x]

EmbedWith(k, c) ==
  MkArgs(<<<<K_title, JStr(<<"t">>)>>, <<K_color, c>>,
           <<K_fields, IF k = 0 THEN Absent
                       ELSE JArr(Repeat(JObj(<<<<K_name, JStr(<<"n">>)>>,
                                               <<K_value, JStr(<<"v">>)>>>>), k))>>>>)

ColorValues ==
  {Absent, JNum(0 - 1), JNum(0), JNum(16777215), JNum(16777216), JFrac(1, <<"5">>)}

EmbedsAtLimits ==
  {JArr(Repeat(Embed1, n - 1) \o <<EmbedWith(k, c)>>) :
     n \in {1, MAX_EMBEDS, MAX_EMBEDS + 1}, k \in {0, MAX_FIELDS, MAX_FIELDS + 1},
     c \in ColorValues}

SendArgsAtLimits == {MkArgs(<<<<K_embeds, e>>>>) : e \in EmbedsAtLimits}

EditArgsAtLimits ==
  {MkArgs(<<<<K_message_id, JStr(<<"5">>)>>, <<K_embeds, e>>>>) : e \in EmbedsAtLimits}

Reject(message) ==
  [kind |-> "reject", status |-> 0, statusText |-> <<>>, body |-> <<>>,
   readFails |-> FALSE, message |-> message]

\* readFails: reading the body (response.text(), response.json()) rejects;
\* message: the message of the Error raised by a failed read or decode
Http(status, statusText, body, readFails, message) ==
  [kind |-> "http", status |-> status, statusText |-> statusText, body |-> body,
   readFails |-> readFails, message |-> message]

BodyChars == {"a", "\"", "\\", "{"}
TextsUpTo(n) == UNION {[1..k -> BodyChars] : k \in 0..n}
Bodies == TextsUpTo(MaxBodyLen)
Messages == TextsUpTo(MaxBodyLen) \cup {<<"{", "}">>, <<"{", "\"", "s", "t", "a", "t", "u", "s", "\"", ":", "5", "0", "0", "}">>}

OkStatuses == {200, 204}
ErrStatuses == {404, 500}
StatusTexts == {<<>>, <<"N", "o", "t", " ", "F", "o", "u", "n", "d">>}

\* the message object the endpoint echoes for ?wait=true
Echo(id, channel_id, timestamp) ==
  JObj(<<<<K_id, JStr(id)>>, <<K_channel_id, JStr(channel_id)>>, <<K_content, Hi>>,
         <<K_timestamp, JStr(timestamp)>>>>)

Echoes == {Echo(i, c, <<"t">>) : i \in {<<"1">>, <<"2">>}, c \in {<<"8">>, <<"9">>}}

OkBodies == {JSON_stringify(e) : e \in Echoes} \cup {K_null, <<"{", "}">>} \cup Bodies

\* the answer to a request for a message that does not exist
UnknownMessage ==
  Http(404, <<"N", "o", "t", " ", "F", "o", "u", "n", "d">>, <<"U", "n", "k", "n", "o", "w", "n", " ", "M", "e", "s", "s", "a", "g", "e">>, FALSE, <<>>)

Responses ==
  {Reject(m) : m \in Messages}
  \cup {UnknownMessage}
  \cup {Http(s, st, b, FALSE, <<>>) : s \in ErrStatuses, st \in StatusTexts, b \in Bodies}
  \cup {Http(s, st, <<>>, TRUE, m) :
          s \in ErrStatuses \cup OkStatuses, st \in StatusTexts, m \in Messages}
  \cup {Http(s, st, b, FALSE, IF JSON_parse(b).ok THEN <<>> ELSE m) :
          s \in OkStatuses, st \in StatusTexts, b \in OkBodies, m \in Messages}

ResponsesFew ==
  {Reject(<<"a">>),
   Http(404, <<"N", "o", "t", " ", "F", "o", "u", "n", "d">>, <<"a">>, FALSE, <<>>),
   Http(200, <<>>, JSON_stringify(Echo(<<"1">>, <<"8">>, <<"t">>)), FALSE, <<>>)}

(***************************************************************************)
(* Process start: the module-level check of WEBHOOK_URL, then main().      *)
(***************************************************************************)
Init ==
  /\ entry \in {"index", "single"}
  /\ WEBHOOK_URL \in EnvValues
  /\ proc = "loading"
  /\ stderr = <<>>
  /\ pc = "idle"
  /\ tool = "none"
  /\ args = JUndef
  /\ params = JUndef
  /\ request = NoRequest
  /\ fetches = 0
  /\ response = NoResponse
  /\ outcome = NoOutcome
  /\ result = NoResult

\* module load without the check of WEBHOOK_URL
Load_unchecked ==
  /\ proc = "loading"
  /\ stderr' = IF entry = "index"
               THEN <<<<"D", "i", "s", "c", "o", "r", "d", " ", "W", "e", "b", "h", "o", "o", "k", " ", "M", "C", "P", " ", "S", "e", "r", "v", "e", "r", " ", "r", "u", "n", "n", "i", "n", "g", " ", "v", "i", "a", " ", "s", "t", "d", "i", "o", "\n">>>>
               ELSE <<>>
  /\ proc' = "running"
  /\ UNCHANGED <<entry, WEBHOOK_URL, pc, tool, args, params, request, fetches, response,
                 outcome, result>>

\* if (!WEBHOOK_URL) { two lines on stderr; process.exit(1) }; otherwise
\* main() connects the server (index.ts then writes that it is running)
Load ==
  /\ proc = "loading"
  /\ IF WEBHOOK_URL = <<>>
     THEN /\ stderr' = <<<<"D", "I", "S", "C", "O", "R", "D", "_", "W", "E", "B", "H", "O", "O", "K", "_", "U", "R", "L", " ", "e", "n", "v", "i", "r", "o", "n", "m", "e", "n", "t", " ", "v", "a", "r", "i", "a", "b", "l", "e", " ", "i", "s", " ", "n", "o", "t", " ", "s", "e", "t", "\n">>,
                         <<"P", "l", "e", "a", "s", "e", " ", "s", "e", "t", " ", "D", "I", "S", "C", "O", "R", "D", "_", "W", "E", "B", "H", "O", "O", "K", "_", "U", "R", "L", " ", "b", "e", "f", "o", "r", "e", " ", "r", "u", "n", "n", "i", "n", "g", " ", "t", "h", "i", "s", " ", "s", "e", "r", "v", "e", "r", "\n">>>>
          /\ proc' = "exited"
     ELSE /\ stderr' = IF entry = "index"
                       THEN <<<<"D", "i", "s", "c", "o", "r", "d", " ", "W", "e", "b", "h", "o", "o", "k", " ", "M", "C", "P", " ", "S", "e", "r", "v", "e", "r", " ", "r", "u", "n", "n", "i", "n", "g", " ", "v", "i", "a", " ", "s", "t", "d", "i", "o", "\n">>>>
                       ELSE <<>>
          /\ proc' = "running"
  /\ UNCHANGED <<entry, WEBHOOK_URL, pc, tool, args, params, request, fetches, response,
                 outcome, result>>

(***************************************************************************)
(* A tool invocation up to its await: it ends at once (the arguments are   *)
(* refused, the precondition fails, the URL constructor throws) or hands   *)
(* one request to fetch.                                                   *)
(***************************************************************************)
Begin(name, a) ==
  /\ proc = "running"
  /\ pc = "idle"
  /\ tool' = name
  /\ args' = a
  /\ UNCHANGED <<entry, WEBHOOK_URL, proc, stderr, response>>

EndWith(p, res) ==
  /\ params' = p
  /\ result' = res
  /\ pc' = "done"
  /\ UNCHANGED <<request, fetches, outcome>>

Raise(p) ==
  /\ params' = p
  /\ outcome' = [state |-> "threw", result |-> JUndef, error |-> JUndef]
  /\ result' = Thrown(<<"I", "n", "v", "a", "l", "i", "d", " ", "U", "R", "L">>)
  /\ pc' = "done"
  /\ UNCHANGED <<request, fetches>>

Fetch(p, req) ==
  /\ params' = p
  /\ request' = req
  /\ fetches' = fetches + 1
  /\ pc' = "await"
  /\ UNCHANGED <<outcome, result>>

discord_send_message(a) ==
  /\ entry = "index"
  /\ Begin("discord_send_message", a)
  /\ \E v \in {Validate(SendMessageSchema, a)} :
       IF ~v.ok THEN EndWith(JUndef, InvalidParams)
       ELSE IF ~hasContent(v.v) /\ ~hasEmbeds(v.v)
            THEN EndWith(v.v, ToolResult(PreconditionText, JTrue, JUndef))
       ELSE \E t \in {sendToDiscord_fetch(discord_send_message_payload(v.v), TRUE,
                                          Get(v.v, K_thread_id))} :
              IF t.threw THEN Raise(v.v) ELSE Fetch(v.v, t.request)

discord_edit_message(a) ==
  /\ entry = "index"
  /\ Begin("discord_edit_message", a)
  /\ \E v \in {Validate(EditMessageSchema, a)} :
       IF ~v.ok THEN EndWith(JUndef, InvalidParams)
       ELSE IF ~hasContent(v.v) /\ ~hasEmbeds(v.v)
            THEN EndWith(v.v, ToolResult(PreconditionText, JTrue, JUndef))
       ELSE \E t \in {editDiscordMessage_fetch(Get(v.v, K_message_id),
                                               discord_edit_message_payload(v.v))} :
              IF t.threw THEN Raise(v.v) ELSE Fetch(v.v, t.request)

discord_delete_message(a) ==
  /\ entry = "index"
  /\ Begin("discord_delete_message", a)
  /\ \E v \in {Validate(DeleteMessageSchema, a)} :
       IF ~v.ok THEN EndWith(JUndef, InvalidParams)
       ELSE \E t \in {deleteDiscordMessage_fetch(Get(v.v, K_message_id))} :
              IF t.threw THEN Raise(v.v) ELSE Fetch(v.v, t.request)

\* SendMessageSchema.parse(args) throws its ZodError out of the handler
send_message(a) ==
  /\ entry = "single"
  /\ Begin("send_message", a)
  /\ \E v \in {Validate(SendMessageSchema_legacy, a)} :
       IF ~v.ok THEN EndWith(JUndef, Thrown(<<"Z", "o", "d", "E", "r", "r", "o", "r">>))
       ELSE IF ~hasContent(v.v) /\ ~hasEmbeds(v.v)
            THEN EndWith(v.v, send_message_precondition)
       ELSE \E payload \in {send_message_payload(v.v)} :
            \E t \in {sendToDiscord_legacy_fetch(send_message_restPayload(payload),
                                                 send_message_wait(payload))} :
              IF t.threw THEN Raise(v.v) ELSE Fetch(v.v, t.request)

(***************************************************************************)
(* fetch settles with resp: the operation returns its outcome and the      *)
(* handler its result.                                                     *)
(***************************************************************************)
SettleOutcome(resp) ==
  CASE tool = "discord_send_message" -> sendToDiscord_settle(resp)
    [] tool = "discord_edit_message" -> editDiscordMessage_settle(resp)
    [] tool = "discord_delete_message" -> deleteDiscordMessage_settle(resp)
    [] OTHER ->
         sendToDiscord_legacy_settle(resp, send_message_wait(send_message_payload(params)))

HandlerReturn(out) ==
  CASE tool = "discord_send_message" -> discord_send_message_return(out)
    [] tool = "discord_edit_message" -> discord_edit_message_return(out)
    [] tool = "discord_delete_message" -> discord_delete_message_return(params, out)
    [] OTHER -> send_message_return(out)

\* Settle with one retry: a failed request is issued again
Settle_retrying(resp) ==
  /\ pc = "await"
  /\ response' = resp
  /\ \E out \in {SettleOutcome(resp)} :
       IF Truthy(out.error) /\ fetches < 2
       THEN /\ fetches' = fetches + 1
            /\ UNCHANGED <<pc, outcome, result>>
       ELSE /\ outcome' = out
            /\ result' = HandlerReturn(out)
            /\ pc' = "done"
            /\ UNCHANGED fetches
  /\ UNCHANGED <<entry, WEBHOOK_URL, proc, stderr, tool, args, params, request>>

Settle(resp) ==
  /\ pc = "await"
  /\ response' = resp
  /\ \E out \in {SettleOutcome(resp)} :
       /\ outcome' = out
       /\ result' = HandlerReturn(out)
  /\ pc' = "done"
  /\ UNCHANGED <<entry, WEBHOOK_URL, proc, stderr, tool, args, params, request, fetches>>

\* the result is delivered; the server waits for the next invocation
Return ==
  /\ pc = "done"
  /\ pc' = "idle"
  /\ tool' = "none"
  /\ args' = JUndef
  /\ params' = JUndef
  /\ request' = NoRequest
  /\ fetches' = 0
  /\ response' = NoResponse
  /\ outcome' = NoOutcome
  /\ result' = NoResult
  /\ UNCHANGED <<entry, WEBHOOK_URL, proc, stderr>>

\* few arguments, every answer of the endpoint
Next ==
  \/ Load
  \/ \E a \in SendArgs : discord_send_message(a)
  \/ \E a \in EditArgs : discord_edit_message(a)
  \/ \E a \in DeleteArgs : discord_delete_message(a)
  \/ \E a \in SendArgs : send_message(a)
  \/ \E resp \in Responses : Settle(resp)
  \/ Return

Spec == Init /\ [][Next]_vars

\* every argument combination, few answers of the endpoint
NextInputs ==
  \/ Load
  \/ \E a \in SendArgsWide : discord_send_message(a)
  \/ \E a \in EditArgsWide : discord_edit_message(a)
  \/ \E a \in DeleteArgsWide : discord_delete_message(a)
  \/ \E a \in SendArgsWide : send_message(a)
  \/ \E resp \in ResponsesFew : Settle(resp)
  \/ Return

SpecInputs == Init /\ [][NextInputs]_vars

\* arguments at the limits of the schemas, few answers of the endpoint
NextAtLimits ==
  \/ Load
  \/ \E a \in SendArgsAtLimits : discord_send_message(a)
  \/ \E a \in EditArgsAtLimits : discord_edit_message(a)
  \/ \E a \in DeleteArgs : discord_delete_message(a)
  \/ \E a \in SendArgsAtLimits : send_message(a)
  \/ \E resp \in ResponsesFew : Settle(resp)
  \/ Return

SpecAtLimits == Init /\ [][NextAtLimits]_vars

(***************************************************************************)
(* Vocabulary of the properties.                                           *)
(***************************************************************************)
HasKey(obj, key) == obj.t = "object" /\ \E i \in 1..Len(obj.m) : obj.m[i][1] = key

KeysOf(obj) == IF obj.t = "object" THEN {obj.m[i][1] : i \in 1..Len(obj.m)} ELSE {}

\* a request was handed to fetch in this invocation
Issued == pc \in {"await", "done"} /\ fetches > 0

\* the JSON body on the wire, decoded as the endpoint decodes it
WireBody == JSON_parse(request.body).v

SendTools == {"discord_send_message", "send_message"}

\* the caller gave neither a non-empty content nor a non-empty embeds list
MissingBoth ==
  /\ ~HasKey(args, K_content)
  /\ ~HasKey(args, K_embeds) \/ Get(args, K_embeds) = JArr(<<>>)

ErrorTypes == {JStr(K_validation_error), JStr(K_webhook_error), JStr(K_unknown_error)}

\* the failure payload {success: false, error: {type, ...}}
FailurePayload(sc) ==
  /\ Get(sc, K_success) = JFalse
  /\ Get(Get(sc, K_error), K_type) \in ErrorTypes

\* the endpoint answered with a status outside 200..299
NonSuccess == response.kind = "http" /\ ~IsOkStatus(response.status)

(***************************************************************************)
(* C1.  A send or edit whose input has neither a non-empty content nor a   *)
(* non-empty embeds list returns a validation_error whose field is         *)
(* "content/embeds", and issues no request.  The handlers of index.ts      *)
(* return a text and isError only, against the "Validation error:          *)
(* content/embeds - ..." their tool descriptions document; the single-file *)
(* server does return the validation_error.  No request is issued by       *)
(* either.                                                                 *)
(***************************************************************************)
C1_MissingBothIsValidationError ==
  (/\ pc = "done"
   /\ tool \in SendTools \cup {"discord_edit_message"}
   /\ result.kind # "invalid_params"
   /\ MissingBoth)
  => /\ fetches = 0
     /\ result.kind = "result"
     /\ Get(Get(result.structuredContent, K_error), K_type) = JStr(K_validation_error)
     /\ Get(Get(result.structuredContent, K_error), K_field) = JStr(<<"c", "o", "n", "t", "e", "n", "t", "/", "e", "m", "b", "e", "d", "s">>)

(***************************************************************************)
(* C2.  sendToDiscord, editDiscordMessage and deleteDiscordMessage never   *)
(* raise, also when the configured URL is not a well-formed URL.  Each     *)
(* calls new URL(...) before its try block, so a configured text that is   *)
(* no URL makes the operation throw.                                       *)
(***************************************************************************)
C2_TransportNeverRaises == outcome.state # "threw"

C4_OtherFailureIsUnknownError ==
  (/\ pc = "done"
   /\ \/ response.kind = "reject"
      \/ /\ response.kind = "http"
         /\ IsOkStatus(response.status)
         /\ tool # "discord_delete_message"
         /\ request.method = "POST" => searchParams_get(request.url.query, K_wait) = JStr(K_true)
         /\ response.readFails \/ ~JSON_parse(response.body).ok)
  => outcome.error = unknown_error(JStr(response.message))

(***************************************************************************)
(* C5.  A failing send, edit or delete returns {success: false,            *)
(* error: {type, ...}} with type one of the three kinds, isError and a     *)
(* text; a succeeding one returns {success: true, message_id, ...}.  The   *)
(* handlers of index.ts return no structuredContent on failure, though     *)
(* their descriptions document "success": boolean.                         *)
(***************************************************************************)
C5_ResultShape ==
  pc = "done"
  => IF result.kind = "result" /\ result.isError # JTrue
     THEN /\ Get(result.structuredContent, K_success) = JTrue
          /\ Get(result.structuredContent, K_message_id).t = "string"
     ELSE /\ result.kind = "result"
          /\ result.text # <<>>
          /\ FailurePayload(result.structuredContent)

(***************************************************************************)
(* C6.  A successful send issued with wait=true returns the id, channel_id *)
(* and timestamp of the message object the endpoint echoed.                *)
(***************************************************************************)
AnsweredWith(e) ==
  /\ pc = "done"
  /\ tool \in SendTools
  /\ searchParams_get(request.url.query, K_wait) = JStr(K_true)
  /\ response.kind = "http"
  /\ IsOkStatus(response.status)
  /\ ~response.readFails
  /\ response.body = JSON_stringify(e)

C6_SendEchoesMessage ==
  \A e \in Echoes :
    AnsweredWith(e)
    => /\ result.kind = "result"
       /\ result.isError # JTrue
       /\ Get(result.structuredContent, K_success) = JTrue
       /\ Get(result.structuredContent, K_message_id) = Get(e, K_id)
       /\ Get(result.structuredContent, K_channel_id) = Get(e, K_channel_id)
       /\ Get(result.structuredContent, K_timestamp) = Get(e, K_timestamp)

C6_Witness == AnsweredWith(Echo(<<"2">>, <<"9">>, <<"t">>))

(***************************************************************************)
(* C7.  A delete answered with a success status and an empty body returns  *)
(* success with the message_id of the input; no error is reported.         *)
(***************************************************************************)
EmptyDelete ==
  /\ pc = "done"
  /\ tool = "discord_delete_message"
  /\ response.kind = "http"
  /\ IsOkStatus(response.status)
  /\ response.body = <<>>

C7_EmptyDeleteSucceeds ==
  EmptyDelete
  => /\ outcome = Returned(JUndef, JUndef)
     /\ result.kind = "result"
     /\ result.isError # JTrue
     /\ Get(result.structuredContent, K_success) = JTrue
     /\ Get(result.structuredContent, K_message_id) = Get(args, K_message_id)

C7_Witness == EmptyDelete /\ response.status = 204 /\ Get(args, K_message_id) = JStr(<<"6">>)

(***************************************************************************)
(* C8.  A send with a thread_id never has a thread_id key in its JSON body *)
(* and carries the value as the thread_id query parameter.  The            *)
(* single-file server takes thread_id out of a payload that never held it  *)
(* and passes nothing on: its request has no thread_id parameter.          *)
(***************************************************************************)
C8_ThreadIdInQuery ==
  (Issued /\ tool \in SendTools /\ HasKey(args, K_thread_id))
  => /\ ~HasKey(WireBody, K_thread_id)
     /\ searchParams_get(request.url.query, K_thread_id) = Get(args, K_thread_id)

(***************************************************************************)
(* C9.  A key is in a send's JSON body only if the input gave a present,   *)
(* non-empty value for it; nothing is sent as null, empty or default; and  *)
(* {content: "hi"} gives a body whose only key is content.  The builders   *)
(* test allowed_mentions for truthiness, and an empty object is truthy:    *)
(* allowed_mentions: {} is sent, as {replied_user: false}.                 *)
(***************************************************************************)
NonEmpty(v) ==
  CASE v.t = "string" -> v.s # <<>>
    [] v.t = "array" -> v.a # <<>>
    [] v.t = "object" -> v.m # <<>>
    [] v.t \in {"null", "undefined"} -> FALSE
    [] OTHER -> TRUE

OnlyContentHi == args = JObj(<<<<K_content, Hi>>>>) => KeysOf(WireBody) = {K_content}

EditWhitelist == {K_content, K_embeds, K_allowed_mentions}

CreateOnly == {K_username, K_avatar_url, K_tts, K_thread_id, K_thread_name}

WithoutCreateOnly(obj) == JObj(SelectSeq(obj.m, LAMBDA kv : kv[1] \notin CreateOnly))

CarriesCreateOnly ==
  /\ pc = "done"
  /\ tool = "discord_edit_message"
  /\ KeysOf(args) \cap CreateOnly # {}

C10_EditDropsCreateOnly ==
  /\ (Issued /\ tool = "discord_edit_message") => KeysOf(WireBody) \subseteq EditWhitelist
  /\ (CarriesCreateOnly /\ Validate(EditMessageSchema, WithoutCreateOnly(args)).ok)
     => result.kind # "invalid_params"

\* C10, amended: an edit's JSON body has no key other than content, embeds
\* and allowed_mentions; an edit input that carries a create-only field is
\* rejected by validation and issues no request.
C10_EditRejectsCreateOnly ==
  /\ (Issued /\ tool = "discord_edit_message")
     => /\ KeysOf(WireBody) \subseteq EditWhitelist
        /\ KeysOf(args) \cap CreateOnly = {}
  /\ CarriesCreateOnly => (result = InvalidParams /\ fetches = 0)

\* an edit that would be valid without its username was rejected
C10_Witness ==
  /\ CarriesCreateOnly
  /\ args = JObj(<<<<K_message_id, JStr(<<"5">>)>>, <<K_content, Hi>>,
                   <<K_username, JStr(<<"b">>)>>>>)
  /\ result = InvalidParams

(***************************************************************************)
(* C11.  A send or edit whose embeds list has more than 10 entries, or in  *)
(* which an embed has more than 25 fields, is rejected by validation and   *)
(* issues no request.  The single-file server limits the embeds (max(10))  *)
(* but not the fields, which its schema describes as at most 25: an embed  *)
(* with 26 fields is validated and sent.                                   *)
(***************************************************************************)
EmbedsGiven == IF Get(args, K_embeds).t = "array" THEN Get(args, K_embeds).a ELSE <<>>

TooManyEmbeds == Len(EmbedsGiven) > 10

TooManyFields ==
  \E i \in 1..Len(EmbedsGiven) :
    /\ Get(EmbedsGiven[i], K_fields).t = "array"
    /\ Len(Get(EmbedsGiven[i], K_fields).a) > 25

\* the arguments were refused: by the SDK against inputSchema, or by
\* SendMessageSchema.parse throwing
Rejected == result = InvalidParams \/ result = Thrown(<<"Z", "o", "d", "E", "r", "r", "o", "r">>)

SendOrEdit == tool \in SendTools \cup {"discord_edit_message"}

\* the configured text is a URL: new URL(WEBHOOK_URL) does not throw
WellConfigured == URL_new(WEBHOOK_URL).ok

C11_TooManyIsRejected ==
  (/\ pc \in {"await", "done"}
   /\ SendOrEdit
   /\ WellConfigured
   /\ TooManyEmbeds \/ TooManyFields)
  => (pc = "done" /\ Rejected /\ fetches = 0)

(***************************************************************************)
(* C12.  An input with an embed whose color is not an integer in           *)
(* [0, 16777215] is rejected by validation; every integer color in that    *)
(* range is accepted.  The single-file server declares color as z.number() *)
(* with no .int(), .min or .max: -1, 16777216 and 1.5 are validated and    *)
(* sent.                                                                   *)
(***************************************************************************)
ColorsGiven ==
  {Get(EmbedsGiven[i], K_color) : i \in 1..Len(EmbedsGiven)} \ {JUndef}

InRGB(c) == c.t = "number" /\ c.s = <<>> /\ c.n >= 0 /\ c.n <= 16777215

C12_ColorInRange ==
  (pc \in {"await", "done"} /\ SendOrEdit /\ WellConfigured)
  => /\ (\E c \in ColorsGiven : ~InRGB(c)) => (pc = "done" /\ Rejected /\ fetches = 0)
     /\ (/\ ColorsGiven # {}
         /\ \A c \in ColorsGiven : InRGB(c)
         /\ ~TooManyEmbeds
         /\ ~TooManyFields)
        => (~Rejected /\ fetches = 1)

(***************************************************************************)
(* C13.  When DISCORD_WEBHOOK_URL is not set at process start, the process *)
(* writes its diagnostic and exits before the server is connected: no tool *)
(* invocation is served and no request is issued without a configured URL. *)
(***************************************************************************)
C13_NoServiceWithoutUrl ==
  WEBHOOK_URL = <<>>
  => /\ proc \in {"loading", "exited"}
     /\ pc = "idle"
     /\ tool = "none"
     /\ fetches = 0
     /\ request = NoRequest
     /\ proc = "exited"
        => /\ Len(stderr) = 2
           /\ stderr[1] = <<"D", "I", "S", "C", "O", "R", "D", "_", "W", "E", "B", "H", "O", "O", "K", "_", "U", "R", "L", " ", "e", "n", "v", "i", "r", "o", "n", "m", "e", "n", "t", " ", "v", "a", "r", "i", "a", "b", "l", "e", " ", "i", "s", " ", "n", "o", "t", " ", "s", "e", "t", "\n">>

C13_Witness == WEBHOOK_URL = <<>> /\ proc = "exited" /\ stderr # <<>>

(***************************************************************************)
(* C14.  An invocation of send, edit or delete issues at most one request, *)
(* whatever its outcome: once fetch has settled (non-2xx status, network   *)
(* failure, decode failure or success) the invocation is over and no       *)
(* further request is made.                                                *)
(***************************************************************************)
C14_AtMostOneRequest ==
  /\ fetches <= 1
  /\ pc = "await" => (fetches = 1 /\ response = NoResponse)
  /\ response # NoResponse => (pc = "done" /\ fetches = 1)

\* a request failed and the invocation ended with that single request
C14_Witness ==
  /\ pc = "done"
  /\ fetches = 1
  /\ Truthy(outcome.error)
  /\ response.kind = "reject" \/ NonSuccess

(***************************************************************************)
(* C15.  For every webhook_error the formatted message is "Discord Webhook *)
(* error: ", the status, a space, the status text, a newline and the body; *)
(* a 404 "Not Found" with body "Unknown Message" gives a webhook_error     *)
(* with status 404 and body "Unknown Message", formatted as                *)
(* "Discord Webhook error: 404 Not Found\nUnknown Message".  The handlers  *)
(* put their error prefix before the formatted message.                    *)
(***************************************************************************)
ErrorPrefix == <<"E", "r", "r", "o", "r", ":", " ">>

Webhook == URL_new(WEBHOOK_URL)

JsonContentType == <<"a", "p", "p", "l", "i", "c", "a", "t", "i", "o", "n", "/", "j", "s", "o", "n">>

\* the address of the message resource an id names under the webhook
MessageResource(id) ==
  [scheme |-> Webhook.scheme, host |-> Webhook.host,
   path |-> Webhook.path \o <<"/", "m", "e", "s", "s", "a", "g", "e", "s", "/">> \o id.s,
   query |-> <<>>, hash |-> <<>>]

Address(url) ==
  [scheme |-> url.scheme, host |-> url.host, path |-> url.path,
   query |-> url.query, hash |-> url.hash]

C16_SendForm ==
  (Issued /\ tool = "discord_send_message")
  => /\ request.method = "POST"
     /\ request.url.scheme = Webhook.scheme
     /\ request.url.host = Webhook.host
     /\ request.url.path = Webhook.path
     /\ searchParams_get(request.url.query, K_wait) = JStr(K_true)
     /\ Truthy(Get(args, K_thread_id))
        => searchParams_get(request.url.query, K_thread_id) = Get(args, K_thread_id)
     /\ request.hasBody /\ request.contentType = JsonContentType
     /\ JSON_parse(request.body).ok

C16_EditForm ==
  (Issued /\ tool = "discord_edit_message")
  => /\ request.method = "PATCH"
     /\ Address(request.url) = MessageResource(Get(args, K_message_id))
     /\ request.hasBody /\ request.contentType = JsonContentType
     /\ JSON_parse(request.body).ok

C16_DeleteForm ==
  (Issued /\ tool = "discord_delete_message")
  => /\ request.method = "DELETE"
     /\ Address(request.url) = MessageResource(Get(args, K_message_id))
     /\ ~request.hasBody

C16_RequestForms == C16_SendForm /\ C16_EditForm /\ C16_DeleteForm

\* the same forms for the ids that are a single path segment
PlainId(id) ==
  id.t = "string" /\ \A i \in 1..Len(id.s) : \E d \in 1..Len(Digits) : Digits[d] = id.s[i]

C16_EditFormPlain ==
  (Issued /\ tool = "discord_edit_message" /\ PlainId(Get(args, K_message_id)))
  => /\ request.method = "PATCH"
     /\ Address(request.url) = MessageResource(Get(args, K_message_id))

C16_DeleteFormPlain ==
  (Issued /\ tool = "discord_delete_message" /\ PlainId(Get(args, K_message_id)))
  => /\ request.method = "DELETE"
     /\ Address(request.url) = MessageResource(Get(args, K_message_id))
     /\ ~request.hasBody

(***************************************************************************)
(* C17.  An invocation reports success only if exactly one request was     *)
(* issued and it was answered with a success status; and every send, edit  *)
(* or delete answered with a success status and a decodable body is        *)
(* reported as success, an edit whose decoded body is null included.  The  *)
(* edit handler tests the decoded body for truthiness: an edit answered    *)
(* 2xx with body null (or 0, false, "") is reported as a failure with a    *)
(* fixed text.  With the edit's second half limited to truthy decoded      *)
(* bodies the statement holds.                                             *)
(***************************************************************************)
ReportedSuccess == pc = "done" /\ result.kind = "result" /\ result.isError # JTrue

AnsweredOk == pc = "done" /\ fetches > 0 /\ response.kind = "http" /\ IsOkStatus(response.status)

Decodable == ~response.readFails /\ JSON_parse(response.body).ok

EditFailedText == <<"E", "r", "r", "o", "r", ":", " ", "m", "e", "s", "s", "a", "g", "e", " ", "n", "o", " ", "h", "e", "n", "s", "h", "u", "u", " ", "n", "i", " ", "s", "h", "i", "p", "p", "a", "i", " ", "s", "h", "i", "m", "a", "s", "h", "i", "t", "a">>

C17_SuccessOnlyAfterOneOk == ReportedSuccess => (fetches = 1 /\ AnsweredOk)

C17_SuccessIffAnsweredOk ==
  /\ C17_SuccessOnlyAfterOneOk
  /\ (AnsweredOk /\ Decodable) => ReportedSuccess

C17_SuccessIffAnsweredOkAndTruthyEdit ==
  /\ C17_SuccessOnlyAfterOneOk
  /\ (AnsweredOk /\ Decodable /\ tool # "discord_edit_message") => ReportedSuccess
  /\ (AnsweredOk /\ Decodable /\ tool = "discord_edit_message")
     => IF Truthy(JSON_parse(response.body).v)
        THEN ReportedSuccess
        ELSE /\ result.kind = "result"
             /\ result.isError = JTrue
             /\ result.text = EditFailedText

C17_Witness ==
  /\ AnsweredOk
  /\ tool = "discord_edit_message"
  /\ response.body = K_null
  /\ ~response.readFails
  /\ result.isError = JTrue

(***************************************************************************)
(* C18.  A send whose input gives both thread_id and thread_name issues    *)
(* one request that carries thread_id as a query parameter and thread_name *)
(* in its JSON body at the same time: neither is dropped for the other.    *)
(* The single-file server never passes a thread_id on: its request carries *)
(* thread_name alone.                                                      *)
(***************************************************************************)
BothThreadKeys ==
  /\ tool \in SendTools
  /\ NonEmpty(Get(args, K_thread_id))
  /\ NonEmpty(Get(args, K_thread_name))

CarriesBoth ==
  /\ fetches = 1
  /\ searchParams_get(request.url.query, K_thread_id) = Get(args, K_thread_id)
  /\ Get(WireBody, K_thread_name) = Get(args, K_thread_name)
  /\ ~HasKey(WireBody, K_thread_id)

C18_ThreadIdAndNameTogether ==
  (BothThreadKeys /\ Issued) => CarriesBoth

\* the same for the server of index.ts alone
C18_ThreadIdAndNameTogetherIndex ==
  (BothThreadKeys /\ entry = "index" /\ Issued) => CarriesBoth

C18_IndexCarriesBoth == BothThreadKeys /\ entry = "index" /\ pc = "await" /\ CarriesBoth

====
